---- MODULE Spec2Model ----
(***************************************************************************)
(* Model of src/pages/api/getImagesAndInferences.ts: the API handler, the  *)
(* retrieval loop getImageAndInference and the timestamp conversion.       *)
(*                                                                         *)
(* A JavaScript string is a sequence of characters: each a one-character   *)
(* string or, for a character that a string of a module cannot hold, the   *)
(* string of its escape, a backslash, u and four hexadecimal digits.  A    *)
(* Date is a record [valid, day, ms]: whole days since 1970-01-01T00:00Z   *)
(* and the milliseconds within that day (getTime() = day * 86400000 + ms). *)
(* The server's local time zone is the zone tz, with its daylight-saving   *)
(* rules.                                                                  *)
(***************************************************************************)
EXTENDS Integers, Sequences, FiniteSets

VARIABLES
    tz,          \* the server's local time zone
    pc,          \* per request: where the handler is suspended
    req,         \* per request: the NextApiRequest (method and query)
    args,        \* per request: the arguments of getImageAndInference
    now,         \* per request: the instant new Date() returned
    win,         \* per request: startTime, endTime and what they were taken from
    listReq,     \* per request: the client.insight.getImages calls issued
    images,      \* per request: imageData.data.images
    idx,         \* per request: the loop variable i
    outputList,  \* per request: outputList
    issued,      \* per request: the timestamps getInferenceResults was called with
    replies,     \* per request: the results those calls completed with
    ret,         \* per request: how getImageAndInference ended
    res          \* per request: the NextApiResponse (status calls, json calls)

vars == <<tz, pc, req, args, now, win, listReq, images, idx, outputList, issued,
          replies, ret, res>>

(***************************************************************************)
(* Strings                                                                 *)
(***************************************************************************)
Digits == <<"0", "1", "2", "3", "4", "5", "6", "7", "8", "9">>

IsDigit(c) == \E i \in 1..10 : Digits[i] = c

DigitVal(c) == (CHOOSE i \in 1..10 : Digits[i] = c) - 1

HexDigits == <<"0", "1", "2", "3", "4", "5", "6", "7", "8", "9",
               "a", "b", "c", "d", "e", "f">>

UpperHex == <<"0", "1", "2", "3", "4", "5", "6", "7", "8", "9",
              "A", "B", "C", "D", "E", "F">>

\* The value of c as a digit, or 99 when c is none.
HexVal(c) ==
    IF \E i \in 1..16 : HexDigits[i] = c THEN (CHOOSE i \in 1..16 : HexDigits[i] = c) - 1
    ELSE IF \E i \in 1..16 : UpperHex[i] = c THEN (CHOOSE i \in 1..16 : UpperHex[i] = c) - 1
    ELSE 99

Min(a, b) == IF a < b THEN a ELSE b

\* String.prototype.slice(a, b) for 0 <= a <= b: the characters a .. b-1 that exist.
Slice(s, a, b) == SubSeq(s, a + 1, Min(b, Len(s)))

AllDigits(s) == \A i \in 1..Len(s) : IsDigit(s[i])

\* The value of a string of digits.
RECURSIVE DecimalValue(_)
DecimalValue(s) ==
    IF s = <<>> THEN 0
    ELSE 10 * DecimalValue(SubSeq(s, 1, Len(s) - 1)) + DigitVal(s[Len(s)])

RECURSIVE Pow10(_)
Pow10(n) == IF n = 0 THEN 1 ELSE 10 * Pow10(n - 1)

\* The characters StringToNumber, parseInt and trim take for white space
\* and line ends: tab, line tabulation (U+000B), form feed, the byte order
\* mark (U+FEFF), every space separator (U+0020, U+00A0, U+1680,
\* U+2000..U+200A, U+202F, U+205F, U+3000), and line feed, carriage return,
\* U+2028 and U+2029.
WhiteSpace ==
    {" ", "\t", "\n", "\r", "\f", "", " ", "﻿", " ",
     "\\u2000", "\\u2001", "\\u2002", "\\u2003", "\\u2004", "\\u2005", "\\u2006",
     "\\u2007", "\\u2008", "\\u2009", "\\u200A", "\\u2028", "\\u2029", "\\u202F",
     "\\u205F", "\\u3000"}

\* String.prototype.trim, as StringToNumber strips white space.
RECURSIVE TrimLeft(_)
TrimLeft(s) == IF s # <<>> /\ s[1] \in WhiteSpace THEN TrimLeft(Tail(s)) ELSE s

RECURSIVE TrimRight(_)
TrimRight(s) ==
    IF s # <<>> /\ s[Len(s)] \in WhiteSpace THEN TrimRight(SubSeq(s, 1, Len(s) - 1)) ELSE s

\* The position of the first character of s that is in set C, or 0.
FirstIn(s, C) ==
    IF \E i \in 1..Len(s) : s[i] \in C
    THEN CHOOSE i \in 1..Len(s) : s[i] \in C /\ \A j \in 1..(i - 1) : s[j] \notin C
    ELSE 0

\* s without its trailing "0" characters.
RECURSIVE StripZeros(_)
StripZeros(s) ==
    IF s # <<>> /\ s[Len(s)] = "0" THEN StripZeros(SubSeq(s, 1, Len(s) - 1)) ELSE s

InfinityWord == <<"I", "n", "f", "i", "n", "i", "t", "y">>

\* A number, by what new Date takes of it: nan; else its sign neg, its
\* integer part int (ToIntegerOrInfinity), whether a fraction was dropped
\* from it (frac) and whether it is a fraction of at most 2^-54 (tiny), when
\* the magnitude is at most 2 * 10^9; else big, with inf for Infinity and,
\* when known, the magnitude mant * 10^exp.
NaNValue ==
    [nan |-> TRUE, neg |-> FALSE, inf |-> FALSE, big |-> FALSE, int |-> 0,
     frac |-> FALSE, tiny |-> FALSE, known |-> FALSE, mant |-> 0, exp |-> 0]

\* The number of magnitude int plus, when frac, a fraction.
Num(neg, int, frac) ==
    [nan |-> FALSE, neg |-> neg, inf |-> FALSE, big |-> FALSE,
     int |-> IF neg THEN 0 - int ELSE int, frac |-> frac, tiny |-> FALSE,
     known |-> FALSE, mant |-> 0, exp |-> 0]

\* A fraction of magnitude at most 2^-54 and not 0: 1 less it rounds to 1.
TinyNum(neg) == [Num(neg, 0, TRUE) EXCEPT !.tiny = TRUE]

\* A finite number of magnitude above 2 * 10^9.
BigNum(neg, known, mant, exp) ==
    [nan |-> FALSE, neg |-> neg, inf |-> FALSE, big |-> TRUE, int |-> 0,
     frac |-> FALSE, tiny |-> FALSE, known |-> known, mant |-> mant, exp |-> exp]

InfNum(neg) ==
    [nan |-> FALSE, neg |-> neg, inf |-> TRUE, big |-> TRUE, int |-> 0,
     frac |-> FALSE, tiny |-> FALSE, known |-> FALSE, mant |-> 0, exp |-> 0]

\* The decimal digits of 2^1024 - 2^970, the least magnitude that rounds to
\* Infinity.
MaxDoubleDigits ==
    <<"1", "7", "9", "7", "6", "9", "3", "1", "3", "4", "8", "6", "2",
      "3", "1", "5", "8", "0", "7", "9", "3", "7", "2", "8", "9", "7",
      "1", "4", "0", "5", "3", "0", "3", "4", "1", "5", "0", "7", "9",
      "9", "3", "4", "1", "3", "2", "7", "1", "0", "0", "3", "7", "8",
      "2", "6", "9", "3", "6", "1", "7", "3", "7", "7", "8", "9", "8",
      "0", "4", "4", "4", "9", "6", "8", "2", "9", "2", "7", "6", "4",
      "7", "5", "0", "9", "4", "6", "6", "4", "9", "0", "1", "7", "9",
      "7", "7", "5", "8", "7", "2", "0", "7", "0", "9", "6", "3", "3",
      "0", "2", "8", "6", "4", "1", "6", "6", "9", "2", "8", "8", "7",
      "9", "1", "0", "9", "4", "6", "5", "5", "5", "5", "4", "7", "8",
      "5", "1", "9", "4", "0", "4", "0", "2", "6", "3", "0", "6", "5",
      "7", "4", "8", "8", "6", "7", "1", "5", "0", "5", "8", "2", "0",
      "6", "8", "1", "9", "0", "8", "9", "0", "2", "0", "0", "0", "7",
      "0", "8", "3", "8", "3", "6", "7", "6", "2", "7", "3", "8", "5",
      "4", "8", "4", "5", "8", "1", "7", "7", "1", "1", "5", "3", "1",
      "7", "6", "4", "4", "7", "5", "7", "3", "0", "2", "7", "0", "0",
      "6", "9", "8", "5", "5", "5", "7", "1", "3", "6", "6", "9", "5",
      "9", "6", "2", "2", "8", "4", "2", "9", "1", "4", "8", "1", "9",
      "8", "6", "0", "8", "3", "4", "9", "3", "6", "4", "7", "5", "2",
      "9", "2", "7", "1", "9", "0", "7", "4", "1", "6", "8", "4", "4",
      "4", "3", "6", "5", "5", "1", "0", "7", "0", "4", "3", "4", "2",
      "7", "1", "1", "5", "5", "9", "6", "9", "9", "5", "0", "8", "0",
      "9", "3", "0", "4", "2", "8", "8", "0", "1", "7", "7", "9", "0",
      "4", "1", "7", "4", "4", "9", "7", "7", "9", "2">>

\* 0.a < 0.b for strings of digits read as decimal fractions.
RECURSIVE FractionLess(_, _)
FractionLess(a, b) ==
    IF b = <<>> THEN FALSE
    ELSE IF a = <<>> THEN \E i \in 1..Len(b) : b[i] # "0"
    ELSE IF a[1] # b[1] THEN DigitVal(a[1]) < DigitVal(b[1])
    ELSE FractionLess(Tail(a), Tail(b))

\* The significant digits of 2^-1075, which is 0.2470... * 10^-323, the
\* greatest magnitude that rounds to 0.
MinHalfDigits ==
    <<"2", "4", "7", "0", "3", "2", "8", "2", "2", "9", "2", "0", "6",
      "2", "3", "2", "7", "2", "0", "8", "8", "2", "8", "4", "3", "9",
      "6", "4", "3", "4", "1", "1", "0", "6", "8", "6", "1", "8", "2",
      "5", "2", "9", "9", "0", "1", "3", "0", "7", "1", "6", "2", "3",
      "8", "2", "2", "1", "2", "7", "9", "2", "8", "4", "1", "2", "5",
      "0", "3", "3", "7", "7", "5", "3", "6", "3", "5", "1", "0", "4",
      "3", "7", "5", "9", "3", "2", "6", "4", "9", "9", "1", "8", "1",
      "8", "0", "8", "1", "7", "9", "9", "6", "1", "8", "9", "8", "9",
      "8", "2", "8", "2", "3", "4", "7", "7", "2", "2", "8", "5", "8",
      "8", "6", "5", "4", "6", "3", "3", "2", "8", "3", "5", "5", "1",
      "7", "7", "9", "6", "9", "8", "9", "8", "1", "9", "9", "3", "8",
      "7", "3", "9", "8", "0", "0", "5", "3", "9", "0", "9", "3", "9",
      "0", "6", "3", "1", "5", "0", "3", "5", "6", "5", "9", "5", "1",
      "5", "5", "7", "0", "2", "2", "6", "3", "9", "2", "2", "9", "0",
      "8", "5", "8", "3", "9", "2", "4", "4", "9", "1", "0", "5", "1",
      "8", "4", "4", "3", "5", "9", "3", "1", "8", "0", "2", "8", "4",
      "9", "9", "3", "6", "5", "3", "6", "1", "5", "2", "5", "0", "0",
      "3", "1", "9", "3", "7", "0", "4", "5", "7", "6", "7", "8", "2",
      "4", "9", "2", "1", "9", "3", "6", "5", "6", "2", "3", "6", "6",
      "9", "8", "6", "3", "6", "5", "8", "4", "8", "0", "7", "5", "7",
      "0", "0", "1", "5", "8", "5", "7", "6", "9", "2", "6", "9", "9",
      "0", "3", "7", "0", "6", "3", "1", "1", "9", "2", "8", "2", "7",
      "9", "5", "5", "8", "5", "5", "1", "3", "3", "2", "9", "2", "7",
      "8", "3", "4", "3", "3", "8", "4", "0", "9", "3", "5", "1", "9",
      "7", "8", "0", "1", "5", "5", "3", "1", "2", "4", "6", "5", "9",
      "7", "2", "6", "3", "5", "7", "9", "5", "7", "4", "6", "2", "2",
      "7", "6", "6", "4", "6", "5", "2", "7", "2", "8", "2", "7", "2",
      "2", "0", "0", "5", "6", "3", "7", "4", "0", "0", "6", "4", "8",
      "5", "4", "9", "9", "9", "7", "7", "0", "9", "6", "5", "9", "9",
      "4", "7", "0", "4", "5", "4", "0", "2", "0", "8", "2", "8", "1",
      "6", "6", "2", "2", "6", "2", "3", "7", "8", "5", "7", "3", "9",
      "3", "4", "5", "0", "7", "3", "6", "3", "3", "9", "0", "0", "7",
      "9", "6", "7", "7", "6", "1", "9", "3", "0", "5", "7", "7", "5",
      "0", "6", "7", "4", "0", "1", "7", "6", "3", "2", "4", "6", "7",
      "3", "6", "0", "0", "9", "6", "8", "9", "5", "1", "3", "4", "0",
      "5", "3", "5", "5", "3", "7", "4", "5", "8", "5", "1", "6", "6",
      "6", "1", "1", "3", "4", "2", "2", "3", "7", "6", "6", "6", "7",
      "8", "6", "0", "4", "1", "6", "2", "1", "5", "9", "6", "8", "0",
      "4", "6", "1", "9", "1", "4", "4", "6", "7", "2", "9", "1", "8",
      "4", "0", "3", "0", "0", "5", "3", "0", "0", "5", "7", "5", "3",
      "0", "8", "4", "9", "0", "4", "8", "7", "6", "5", "3", "9", "1",
      "7", "1", "1", "3", "8", "6", "5", "9", "1", "6", "4", "6", "2",
      "3", "9", "5", "2", "4", "9", "1", "2", "6", "2", "3", "6", "5",
      "3", "8", "8", "1", "8", "7", "9", "6", "3", "6", "2", "3", "9",
      "3", "7", "3", "2", "8", "0", "4", "2", "3", "8", "9", "1", "0",
      "1", "8", "6", "7", "2", "3", "4", "8", "4", "9", "7", "6", "6",
      "8", "2", "3", "5", "0", "8", "9", "8", "6", "3", "3", "8", "8",
      "5", "8", "7", "9", "2", "5", "6", "2", "8", "3", "0", "2", "7",
      "5", "5", "9", "9", "5", "6", "5", "7", "5", "2", "4", "4", "5",
      "5", "5", "0", "7", "2", "5", "5", "1", "8", "9", "3", "1", "3",
      "6", "9", "0", "8", "3", "6", "2", "5", "4", "7", "7", "9", "1",
      "8", "6", "9", "4", "8", "6", "6", "7", "9", "9", "4", "9", "6",
      "8", "3", "2", "4", "0", "4", "9", "7", "0", "5", "8", "2", "1",
      "0", "2", "8", "5", "1", "3", "1", "8", "5", "4", "5", "1", "3",
      "9", "6", "2", "1", "3", "8", "3", "7", "7", "2", "2", "8", "2",
      "6", "1", "4", "5", "4", "3", "7", "6", "9", "3", "4", "1", "2",
      "5", "3", "2", "0", "9", "8", "5", "9", "1", "3", "2", "7", "6",
      "6", "7", "2", "3", "6", "3", "2", "8", "1", "2", "5">>

\* The significant digits of 2^-54, which is 0.5551... * 10^-16.
TinyDigits ==
    <<"5", "5", "5", "1", "1", "1", "5", "1", "2", "3", "1", "2", "5",
      "7", "8", "2", "7", "0", "2", "1", "1", "8", "1", "5", "8", "3",
      "4", "0", "4", "5", "4", "1", "0", "1", "5", "6", "2", "5">>

TwoBillion == <<"2", "0", "0", "0", "0", "0", "0", "0", "0", "0">>

\* n "0" characters.
RECURSIVE Zeros(_)
Zeros(n) == IF n = 0 THEN <<>> ELSE <<"0">> \o Zeros(n - 1)

\* s without its leading "0" characters.
RECURSIVE StripLeadingZeros(_)
StripLeadingZeros(s) == IF s # <<>> /\ s[1] = "0" THEN StripLeadingZeros(Tail(s)) ELSE s

\* The number sig * 10^scale when it is above 2 * 10^9 and finite; its
\* magnitude is kept for significands of at most nine digits.
BigOf(neg, sig, scale) ==
    IF Len(sig) <= 9 /\ scale >= 0 THEN BigNum(neg, TRUE, DecimalValue(sig), scale)
    ELSE BigNum(neg, FALSE, 0, 0)

\* The number sig * 10^scale whose integer part has the digits ds, at most
\* ten of them.
Integral(neg, sig, scale, ds) ==
    IF Len(ds) = 10 /\ FractionLess(TwoBillion, ds) THEN BigOf(neg, sig, scale)
    ELSE Num(neg, DecimalValue(ds), scale < 0)

\* The number sig * 10^scale, sig without leading or trailing zeros and not
\* empty, whose integer part has p digits.
Pointed(neg, sig, scale, p) ==
    IF p < 0 - 323 \/ (p = 0 - 323 /\ ~FractionLess(MinHalfDigits, sig))
    THEN Num(neg, 0, FALSE)
    ELSE IF p < 0 - 16 \/ (p = 0 - 16 /\ ~FractionLess(TinyDigits, sig)) THEN TinyNum(neg)
    ELSE IF p <= 0 THEN Num(neg, 0, TRUE)
    ELSE IF p <= 10
    THEN Integral(neg, sig, scale,
                  IF scale >= 0 THEN sig \o Zeros(scale) ELSE SubSeq(sig, 1, p))
    ELSE IF p > 309 \/ (p = 309 /\ ~FractionLess(sig, MaxDoubleDigits)) THEN InfNum(neg)
    ELSE BigOf(neg, sig, scale)

\* The number sig * 10^scale, sig without leading or trailing zeros.
Scaled(neg, sig, scale) ==
    IF sig = <<>> THEN Num(neg, 0, FALSE) ELSE Pointed(neg, sig, scale, Len(sig) + scale)

\* The value of the digits of an exponent; above 9999 it is 99999, which is
\* as good: the number is then 0, a fraction next to 0, or Infinity.
CappedValue(ds) == IF Len(ds) > 4 THEN 99999 ELSE DecimalValue(ds)

\* The exponent written by the digits expD.
ExponentOf(expD) == CappedValue(StripLeadingZeros(expD))

\* The digits lead, without leading zeros, the last fracLen of them after
\* the '.', times ten to the signed exponent e.
Significand(neg, lead, fracLen, e) ==
    Scaled(neg, StripZeros(lead), e - fracLen + Len(lead) - Len(StripZeros(lead)))

\* A decimal literal from its parts: the digits before and after the '.',
\* whether there is an exponent part, its sign and its digits.
DecimalLiteral(neg, intS, fracS, hasExp, expNeg, expD) ==
    IF /\ AllDigits(intS) /\ AllDigits(fracS) /\ Len(intS) + Len(fracS) >= 1
       /\ hasExp => (expD # <<>> /\ AllDigits(expD))
    THEN IF StripLeadingZeros(intS \o fracS) = <<>> THEN Num(neg, 0, FALSE)
         ELSE Significand(neg, StripLeadingZeros(intS \o fracS), Len(fracS),
                          IF expNeg THEN 0 - ExponentOf(expD) ELSE ExponentOf(expD))
    ELSE NaNValue

\* The mantissa mantS split at its first '.', at position dot or 0.
SplitMantissa(neg, mantS, dot, hasExp, expS) ==
    DecimalLiteral(neg,
                   IF dot = 0 THEN mantS ELSE SubSeq(mantS, 1, dot - 1),
                   IF dot = 0 THEN <<>> ELSE SubSeq(mantS, dot + 1, Len(mantS)),
                   hasExp,
                   expS # <<>> /\ expS[1] = "-",
                   IF expS # <<>> /\ expS[1] \in {"+", "-"} THEN Tail(expS) ELSE expS)

\* The literal u split at its first 'e' or 'E', at position ePos or 0.
SplitExponent(neg, u, ePos) ==
    IF ePos = 0 THEN SplitMantissa(neg, u, FirstIn(u, {"."}), FALSE, <<>>)
    ELSE SplitMantissa(neg, SubSeq(u, 1, ePos - 1),
                       FirstIn(SubSeq(u, 1, ePos - 1), {"."}),
                       TRUE, SubSeq(u, ePos + 1, Len(u)))

\* StrUnsignedDecimalLiteral: digits with at most one '.', at least one digit,
\* and an optional exponent part.
UnsignedDecimal(neg, u) == SplitExponent(neg, u, FirstIn(u, {"e", "E"}))

\* The radix of a literal with a 0x, 0o or 0b prefix, and else 0.
RadixOf(t) ==
    IF Len(t) >= 3 /\ t[1] = "0"
    THEN CASE t[2] \in {"x", "X"} -> 16
           [] t[2] \in {"o", "O"} -> 8
           [] t[2] \in {"b", "B"} -> 2
           [] OTHER -> 0
    ELSE 0

\* The bits of digit value v in a radix of 16, 8 or 2.
DigitBits(v, radix) ==
    CASE radix = 16 -> <<(v \div 8) % 2, (v \div 4) % 2, (v \div 2) % 2, v % 2>>
      [] radix = 8  -> <<(v \div 4) % 2, (v \div 2) % 2, v % 2>>
      [] OTHER      -> <<v % 2>>

\* The bits of the digits ds.
RECURSIVE BitsOf(_, _)
BitsOf(ds, radix) ==
    IF ds = <<>> THEN <<>> ELSE DigitBits(HexVal(ds[1]), radix) \o BitsOf(Tail(ds), radix)

\* bits without its leading 0 bits.
RECURSIVE StripLeadingBits(_)
StripLeadingBits(bits) ==
    IF bits # <<>> /\ bits[1] = 0 THEN StripLeadingBits(Tail(bits)) ELSE bits

\* The value of at most 31 bits.
RECURSIVE BitsValue(_)
BitsValue(bits) ==
    IF bits = <<>> THEN 0
    ELSE 2 * BitsValue(SubSeq(bits, 1, Len(bits) - 1)) + bits[Len(bits)]

\* The number of the bits, the first of them 1: Infinity from
\* 2^1024 - 2^970 on, which has 1024 bits and starts with 54 bits of 1.
BitsNumber(bits) ==
    IF Len(bits) <= 31
    THEN IF BitsValue(bits) <= 2000000000 THEN Num(FALSE, BitsValue(bits), FALSE)
         ELSE BigNum(FALSE, FALSE, 0, 0)
    ELSE IF Len(bits) > 1024 \/ (Len(bits) = 1024 /\ \A i \in 1..54 : bits[i] = 1)
    THEN InfNum(FALSE)
    ELSE BigNum(FALSE, FALSE, 0, 0)

\* The digits ds in the given radix.
RadixLiteral(ds, radix) ==
    IF \E i \in 1..Len(ds) : HexVal(ds[i]) >= radix THEN NaNValue
    ELSE BitsNumber(StripLeadingBits(BitsOf(ds, radix)))

\* An optionally signed decimal literal or Infinity.
SignedDecimal(neg, u) ==
    IF u = InfinityWord THEN InfNum(neg) ELSE UnsignedDecimal(neg, u)

\* StringToNumber of a string without surrounding white space.
TrimmedNumber(t, radix) ==
    IF t = <<>> THEN Num(FALSE, 0, FALSE)
    ELSE IF radix # 0 THEN RadixLiteral(SubSeq(t, 3, Len(t)), radix)
    ELSE SignedDecimal(t[1] = "-", IF t[1] \in {"+", "-"} THEN Tail(t) ELSE t)

\* Number(s), StringToNumber: white space is trimmed and the empty string is
\* 0; then a 0x, 0o or 0b literal, or an optionally signed decimal literal or
\* Infinity; anything else is NaN.
NumberOf(s) == TrimmedNumber(TrimRight(TrimLeft(s)), RadixOf(TrimRight(TrimLeft(s))))

\* Number(s) is NaN.
IsNaN(s) == NumberOf(s).nan

\* The decimal digits of n >= 0, most significant first.
RECURSIVE DigitsOf(_)
DigitsOf(n) ==
    IF n < 10 THEN <<Digits[n + 1]>>
    ELSE DigitsOf(n \div 10) \o <<Digits[(n % 10) + 1]>>

\* date-fns addLeadingZeros(n, w).
RECURSIVE Pad(_, _)
Pad(s, w) == IF Len(s) >= w THEN s ELSE Pad(<<"0">> \o s, w)

\* a < b on strings of digits: the first differing character decides, and a
\* proper prefix is smaller.
RECURSIVE StrLess(_, _)
StrLess(a, b) ==
    IF b = <<>> THEN FALSE
    ELSE IF a = <<>> THEN TRUE
    ELSE IF a[1] # b[1] THEN DigitVal(a[1]) < DigitVal(b[1])
    ELSE StrLess(Tail(a), Tail(b))

\* Whether pat occurs in s at 1-based position i.
MatchAt(s, pat, i) ==
    /\ i + Len(pat) - 1 <= Len(s)
    /\ SubSeq(s, i, i + Len(pat) - 1) = pat

\* String.prototype.replace(pat, '') with a string pattern: the first
\* occurrence of pat is removed, a string without pat is unchanged.
\* (ReplaceFirstAlt: a replace that leaves the name as it is.)
ReplaceFirstAlt(s, pat) == s
ReplaceFirst(s, pat) ==
    IF \E i \in 1..Len(s) : MatchAt(s, pat, i)
    THEN LET i == CHOOSE k \in 1..Len(s) :
                    /\ MatchAt(s, pat, k)
                    /\ \A j \in 1..(k - 1) : ~MatchAt(s, pat, j)
         IN  SubSeq(s, 1, i - 1) \o SubSeq(s, i + Len(pat), Len(s))
    ELSE s

(***************************************************************************)
(* Instants and the calendar                                               *)
(***************************************************************************)
\* Days from 1970-01-01 to day d of month m (1..12) of year y (proleptic
\* Gregorian); d may lie outside the month, as in ECMAScript's MakeDay.
DaysFromCivil(y, m, d) ==
    LET yy  == IF m <= 2 THEN y - 1 ELSE y
        era == yy \div 400
        yoe == yy - era * 400
        mp  == IF m > 2 THEN m - 3 ELSE m + 9
        doy == ((153 * mp + 2) \div 5) + d - 1
        doe == yoe * 365 + (yoe \div 4) - (yoe \div 100) + doy
    IN  era * 146097 + doe - 719468

\* The calendar date [y, m, d] of a day count.
CivilFromDays(days) ==
    LET z   == days + 719468
        era == z \div 146097
        doe == z - era * 146097
        yoe == (doe - (doe \div 1460) + (doe \div 36524) - (doe \div 146096)) \div 365
        doy == doe - (365 * yoe + (yoe \div 4) - (yoe \div 100))
        mp  == (5 * doy + 2) \div 153
        d   == doy - ((153 * mp + 2) \div 5) + 1
        m   == IF mp < 10 THEN mp + 3 ELSE mp - 9
        y   == yoe + era * 400
    IN  [y |-> IF m <= 2 THEN y + 1 ELSE y, m |-> m, d |-> d]

\* The time value of day days and ms milliseconds, ms of any sign.
TimeValue(day, ms) ==
    [valid |-> TRUE, day |-> day + (ms \div 86400000), ms |-> ms % 86400000]

\* t plus ms milliseconds.
Plus(t, ms) == TimeValue(t.day, t.ms + ms)

Before(a, b) == a.day < b.day \/ (a.day = b.day /\ a.ms < b.ms)

\* The instant of a UTC date and hour.
UtcHour(day, hour) == TimeValue(day, hour * 3600000)

\* The day of the week of a day count, Sunday = 0.
WeekDay(day) == (day + 4) % 7

\* The first day with week day w on or after day d of month m of year y.
NextWeekDay(first, w) == first + ((w - WeekDay(first)) % 7)

OnOrAfter(y, m, d, w) == NextWeekDay(DaysFromCivil(y, m, d), w)

\* The last Sunday of month m < 12 of year y.
LastSunday(y, m) == NextWeekDay(DaysFromCivil(y, m + 1, 1) - 7, 0)

(***************************************************************************)
(* Time zones: the offset from UTC in force at an instant, in              *)
(* milliseconds, by the rules of the zone.                                 *)
(***************************************************************************)
Zones == {"UTC", "Asia/Tokyo", "America/New_York"}

\* America/New_York: the days on which daylight time starts (02:00 standard
\* time, 07:00 UTC) and ends (02:00 daylight time, 06:00 UTC) in year y, or
\* an empty interval.
NewYorkDst(y) ==
    CASE y >= 2007 -> [from |-> OnOrAfter(y, 3, 8, 0), to |-> OnOrAfter(y, 11, 1, 0)]
      [] y \in 1987..2006 -> [from |-> OnOrAfter(y, 4, 1, 0), to |-> LastSunday(y, 10)]
      [] y \in 1976..1986 -> [from |-> LastSunday(y, 4), to |-> LastSunday(y, 10)]
      [] y = 1975 -> [from |-> DaysFromCivil(1975, 2, 23), to |-> LastSunday(y, 10)]
      [] y = 1974 -> [from |-> DaysFromCivil(1974, 1, 6), to |-> LastSunday(y, 10)]
      [] y \in 1955..1973 -> [from |-> LastSunday(y, 4), to |-> LastSunday(y, 10)]
      [] y \in 1946..1954 -> [from |-> LastSunday(y, 4), to |-> LastSunday(y, 9)]
      [] y = 1945 -> [from |-> DaysFromCivil(1942, 2, 9), to |-> DaysFromCivil(1945, 9, 30)]
      [] y \in 1942..1944 ->
            [from |-> DaysFromCivil(1942, 2, 9), to |-> DaysFromCivil(1945, 9, 30)]
      [] y \in 1921..1941 -> [from |-> LastSunday(y, 4), to |-> LastSunday(y, 9)]
      [] y \in 1918..1920 -> [from |-> LastSunday(y, 3), to |-> LastSunday(y, 10)]
      [] OTHER -> [from |-> 0, to |-> 0]

\* Whether t is in daylight time, which starts at hour from of day dst.from
\* and ends at hour to of day dst.to, in UTC.
InDst(t, dst, from, to) == ~Before(t, UtcHour(dst.from, from)) /\ Before(t, UtcHour(dst.to, to))

NewYorkOffset(t) ==
    IF Before(t, UtcHour(DaysFromCivil(1883, 11, 18), 17))
    THEN 0 - 17762000
    ELSE IF InDst(t, NewYorkDst(CivilFromDays(t.day).y), 7, 6)
    THEN 0 - 4 * 3600000
    ELSE 0 - 5 * 3600000

\* Asia/Tokyo: daylight time in 1948-1951 from a Saturday 24:00 standard time
\* to a Saturday 25:00 daylight time, both 15:00 UTC of the Saturday.
TokyoDst(y) ==
    CASE y = 1948 -> [from |-> OnOrAfter(y, 5, 1, 6), to |-> OnOrAfter(y, 9, 8, 6)]
      [] y = 1949 -> [from |-> OnOrAfter(y, 4, 1, 6), to |-> OnOrAfter(y, 9, 8, 6)]
      [] y \in 1950..1951 -> [from |-> OnOrAfter(y, 5, 1, 6), to |-> OnOrAfter(y, 9, 8, 6)]
      [] OTHER -> [from |-> 0, to |-> 0]

TokyoOffset(t) ==
    IF Before(t, UtcHour(DaysFromCivil(1887, 12, 31), 15))
    THEN 33539000
    ELSE IF InDst(t, TokyoDst(CivilFromDays(t.day).y), 15, 15)
    THEN 10 * 3600000
    ELSE 9 * 3600000

\* LocalTZA(t, true) of the server's zone.
Offset(t) ==
    CASE tz = "America/New_York" -> NewYorkOffset(t)
      [] tz = "Asia/Tokyo"       -> TokyoOffset(t)
      [] OTHER                   -> 0

\* UTC(t) of local time fields: the instant whose local time is loc; a local
\* time that is skipped or repeated at a change of offset is read with the
\* offset in force before the change.
ReadWith(loc, before, after) ==
    IF Offset(Plus(loc, 0 - before)) = before THEN Plus(loc, 0 - before)
    ELSE IF Offset(Plus(loc, 0 - after)) = after THEN Plus(loc, 0 - after)
    ELSE Plus(loc, 0 - before)

LocalToUtc(loc) ==
    ReadWith(loc, Offset(Plus(loc, 0 - 86400000)), Offset(Plus(loc, 86400000)))

(***************************************************************************)
(* Dates                                                                   *)
(***************************************************************************)
InvalidDate == [valid |-> FALSE, day |-> 0, ms |-> 0]

\* TimeClip: a time value beyond 8.64e15 ms from the epoch is NaN.
TimeClip(t) ==
    IF t.day > 100000000 \/ (t.day = 100000000 /\ t.ms > 0) \/ t.day < 0 - 100000000
    THEN InvalidDate ELSE t

\* mant * 10^exp milliseconds as days and milliseconds, mant of at most nine
\* digits and the count at most 864 * 10^13; a day is 864 * 10^5
\* milliseconds.
MagnitudeMs(mant, exp) ==
    IF exp <= 5
    THEN [day |-> mant \div (864 * Pow10(5 - exp)),
          ms |-> (mant % (864 * Pow10(5 - exp))) * Pow10(exp)]
    ELSE IF exp = 6
    THEN [day |-> 5 * (mant \div 432) + (5 * (mant % 432)) \div 432,
          ms |-> ((5 * (mant % 432)) % 432) * 200000]
    ELSE [day |-> 25 * ((mant * Pow10(exp - 7)) \div 216)
                  + (25 * ((mant * Pow10(exp - 7)) % 216)) \div 216,
          ms |-> ((25 * ((mant * Pow10(exp - 7)) % 216)) % 216) * 400000]

\* The days and milliseconds of the count below zero of the magnitude m.
NegatedMs(m) ==
    IF m.ms = 0 THEN [day |-> 0 - m.day, ms |-> 0]
    ELSE [day |-> 0 - m.day - 1, ms |-> 86400000 - m.ms]

\* A count of n milliseconds as days and milliseconds, n a number that is
\* not NaN and, when big, of known magnitude within the range of a Date.
MsOf(n) ==
    IF ~n.big THEN [day |-> n.int \div 86400000, ms |-> n.int % 86400000]
    ELSE IF n.neg THEN NegatedMs(MagnitudeMs(n.mant, n.exp))
    ELSE MagnitudeMs(n.mant, n.exp)

\* Whether the milliseconds n, of the three characters of slice(14, 17),
\* are more than a Date can hold, 864 * 10^13.  Three characters write a big
\* number with one digit and an exponent only, so its magnitude is known.
MsOutOfRange(n) ==
    n.big /\ (\/ n.inf \/ ~n.known
              \/ (n.exp >= 7 /\ (\/ n.exp > 16
                                 \/ n.mant > 864000000 \div Pow10(n.exp - 7))))

\* MakeDay and MakeTime of fields within range, in local time: the day of
\* the month's first day plus the days, and the time fields carried into
\* days.
MakeDate(fullYear, monthIndex, day, hours, minutes, seconds, msPart) ==
    TimeValue(DaysFromCivil(fullYear + (monthIndex \div 12), (monthIndex % 12) + 1, 1)
              + day - 1 + (hours \div 24) + (minutes \div 1440) + (seconds \div 86400)
              + msPart.day,
              (hours % 24) * 3600000 + (minutes % 1440) * 60000 + (seconds % 86400) * 1000
              + msPart.ms)

\* new Date(year, monthIndex, day, hours, minutes, seconds, ms) in local
\* time, of the numbers of the slices of lines 35-41: NaN in any field gives
\* an invalid Date; a year of 0..99 means 1900 + year; every field may
\* overflow into the next; MakeDay gives NaN for a year beyond 1000000 or a
\* month beyond 10000000 (V8); the result is clipped to the range of time
\* values.  The year has four characters and is out of range when it is
\* big; the month, day, hours, minutes and seconds have two characters each
\* and so are at most 99, never big.
NewDate(year, monthIndex, day, hours, minutes, seconds, ms) ==
    IF year.nan \/ monthIndex.nan \/ day.nan \/ hours.nan \/ minutes.nan \/ seconds.nan
       \/ ms.nan
    THEN InvalidDate
    ELSE IF year.big \/ monthIndex.big \/ day.big \/ hours.big \/ minutes.big
            \/ seconds.big \/ MsOutOfRange(ms)
            \/ year.int > 1000000 \/ year.int < 0 - 1000000
            \/ monthIndex.int > 10000000 \/ monthIndex.int < 0 - 10000000
            \/ day.int > 1000000000 \/ day.int < 0 - 1000000000
    THEN InvalidDate
    ELSE TimeClip(LocalToUtc(
            MakeDate(IF year.int \in 0..99 THEN 1900 + year.int ELSE year.int,
                     monthIndex.int, day.int, hours.int, minutes.int, seconds.int,
                     MsOf(ms))))

\* n - 1 of a number: the subtraction comes before the truncation, so a
\* positive fraction less one is a negative fraction, with integer part 0,
\* unless the fraction is so small that the difference rounds to -1.
MinusOne(n) ==
    IF n.nan \/ n.big THEN n
    ELSE IF ~n.neg /\ n.int = 0 /\ n.frac /\ ~n.tiny THEN [n EXCEPT !.neg = TRUE]
    ELSE [n EXCEPT !.int = @ - 1, !.neg = n.int - 1 < 0, !.frac = @ /\ ~n.tiny,
                   !.tiny = FALSE]

\* convertTimestampToDate: the seven fields at fixed offsets, each converted
\* by Number.
convertTimestampToDate(timestamp) ==
    NewDate(NumberOf(Slice(timestamp, 0, 4)),
            MinusOne(NumberOf(Slice(timestamp, 4, 6))),
            NumberOf(Slice(timestamp, 6, 8)),
            NumberOf(Slice(timestamp, 8, 10)),
            NumberOf(Slice(timestamp, 10, 12)),
            NumberOf(Slice(timestamp, 12, 14)),
            NumberOf(Slice(timestamp, 14, 17)))

\* format(date, 'yyyyMMddHHmm') of a valid date: its local calendar fields;
\* a year of 0 or less is written as 1 - year.
FormatFields(c, mod) ==
    Pad(DigitsOf(IF c.y > 0 THEN c.y ELSE 1 - c.y), 4)
    \o Pad(DigitsOf(c.m), 2) \o Pad(DigitsOf(c.d), 2)
    \o Pad(DigitsOf(mod \div 60), 2) \o Pad(DigitsOf(mod % 60), 2)

FormatLocal(loc) == FormatFields(CivilFromDays(loc.day), loc.ms \div 60000)

FormatMinute(date) == FormatLocal(Plus(date, Offset(date)))

\* new Date(date.getTime() + 10 * 60 * 60 * 1000)
\* (AddTenHoursAlt: ten hours subtracted instead of added.)
AddTenHoursAlt(date) == Plus(date, 0 - 10 * 60 * 60 * 1000)
AddTenHours(date) == Plus(date, 10 * 60 * 60 * 1000)

\* utcToZonedTime(date, 'UTC'): the Date made of date's UTC fields taken as
\* local fields (setFullYear and setHours of the UTC fields).
utcToZonedTime(date) == LocalToUtc(date)

(***************************************************************************)
(* JavaScript values                                                       *)
(***************************************************************************)
Undefined == [t |-> "undefined"]

\* A query parameter that is present: a string of characters.
QStr(chars) == [t |-> "string", chars |-> chars]

\* A message text.
Text(s) == [t |-> "text", s |-> s]

\* An object with a message property, such as a remote error body.
ObjMsg(m) == [t |-> "object", message |-> m]

\* A remote response object {data}.
Response(data) == [t |-> "response", data |-> data]

\* An array of inference results; each item carries its
\* inference_result.Inferences[0].O.
Array(items) == [t |-> "array", items |-> items]

\* Array.prototype.join of n objects: their strings, separated by commas.
RECURSIVE JoinObjects(_)
JoinObjects(n) ==
    IF n = 0 THEN ""
    ELSE IF n = 1 THEN "[object Object]"
    ELSE JoinObjects(n - 1) \o ",[object Object]"

\* String(v), as `${v}` and new Error(v) convert their argument: a string is
\* itself, an array is its joined elements, any other object is
\* "[object Object]".
StringOf(v) ==
    CASE v.t = "text"      -> v.s
      [] v.t = "undefined" -> "undefined"
      [] v.t = "array"     -> JoinObjects(Len(v.items))
      [] v.t \in {"object", "response", "listing"} -> "[object Object]"

\* v.message of a value that is not undefined.
MessageOf(v) == IF v.t = "object" THEN v.message ELSE Undefined

\* new Error(v): an error without a response field.
NewError(v) ==
    [message |-> IF v = Undefined THEN "" ELSE StringOf(v), response |-> Undefined]

\* The TypeError of reading a property of undefined.
TypeErrorReading(prop) ==
    [message |-> "Cannot read properties of undefined (reading '" \o prop \o "')",
     response |-> Undefined]

WrongSetting == "Wrong setting. Check the settings."
CannotParse ==
    "Cannot parse image directory name. Check that the directory name is correct date format."
CannotGet == "Cannot get inference results."
OnlyGet == "The API server only accepts GET requests."
NoDeviceId == "Device ID is not specified."

Throw(err) == [t |-> "throw", err |-> err]
Return(list) == [t |-> "return", list |-> list]
Pending == [t |-> "pending"]

(***************************************************************************)
(* The object-detection decoder (utils/ObjectDetection/deserialize), as    *)
(* the specification describes it: a payload either decodes to a sequence  *)
(* of detections or the decoder throws.                                    *)
(***************************************************************************)
ValidPayloads == {"P1", "P2"}

DeserializeThrows(payload) == payload \notin ValidPayloads

\* JSON.stringify(deserializeObjectDetection(Buffer.from(payload, 'base64')))
InferenceJson(payload) == "detections(" \o payload \o ")"

DecodeError == "Failed to decode the inference payload."

(***************************************************************************)
(* getImageAndInference, the pure parts                                    *)
(***************************************************************************)
\* Line 83: the smaller of the two timestamps as strings.
EndTime(tenHoursLaterTimestamp, currentTimestamp) ==
    IF StrLess(tenHoursLaterTimestamp, currentTimestamp)
    THEN tenHoursLaterTimestamp ELSE currentTimestamp

\* Lines 73-88: the query window of a directory name at the instant
\* currentInstant; format throws on an invalid Date and the catch rethrows.
WindowFrom(startDate, currentInstant) ==
    IF ~startDate.valid THEN Throw(NewError(Text(CannotParse)))
    ELSE [t |-> "window",
          startTime |-> FormatMinute(startDate),
          endTime |-> EndTime(FormatMinute(AddTenHours(startDate)),
                              FormatMinute(utcToZonedTime(currentInstant)))]

ResolveWindow(outputSubDir, currentInstant) ==
    WindowFrom(convertTimestampToDate(outputSubDir), currentInstant)

JpgExt == <<".", "j", "p", "g">>

DataUriPrefix ==
    <<"d", "a", "t", "a", ":", "i", "m", "a", "g", "e", "/", "j", "p", "g", ";",
      "b", "a", "s", "e", "6", "4", ",">>

\* Line 111
TimestampOf(inputTensor) == ReplaceFirst(inputTensor.name, JpgExt)

\* Line 112
Base64Img(inputTensor) == DataUriPrefix \o inputTensor.contents

\* Lines 125-140: what the loop body does with a completed lookup: it throws,
\* or it yields the inferenceData of the record to push.
\* (ProcessInferenceAlt: a failed lookup is pushed as an empty result instead
\* of thrown.)
ProcessInferenceAlt(resInference) ==
    IF resInference.status = 200 /\ resInference.data.t = "array"
       /\ resInference.data.items # <<>>
       /\ ~DeserializeThrows(resInference.data.items[1].O)
    THEN [t |-> "push", inferenceData |-> InferenceJson(resInference.data.items[1].O)]
    ELSE [t |-> "push", inferenceData |-> "[]"]
ProcessInference(resInference) ==
    IF resInference.status # 200
    THEN IF resInference.response.t = "undefined"
         THEN Throw(TypeErrorReading("data"))
         ELSE Throw(NewError(resInference.response.data))
    ELSE IF resInference.data.t = "undefined"
    THEN Throw(TypeErrorReading("length"))
    ELSE IF resInference.data.items = <<>> \/ resInference.data.items[1].O = ""
    THEN Throw(NewError(Text(CannotGet)))
    ELSE IF DeserializeThrows(resInference.data.items[1].O)
    THEN Throw(NewError(Text(DecodeError)))
    ELSE [t |-> "push", inferenceData |-> InferenceJson(resInference.data.items[1].O)]

\* Line 136
Output(inputTensor, inferenceData) ==
    [image |-> Base64Img(inputTensor), inferenceData |-> inferenceData,
     timestamp |-> TimestampOf(inputTensor)]

\* Line 137: outputList.push(output) on the list of invocation r.
\* (PushAlt: one list shared by all invocations.)
PushAlt(lists, r, output) == [q \in DOMAIN lists |-> Append(lists[q], output)]
Push(lists, r, output) == [lists EXCEPT ![r] = Append(@, output)]

\* Line 107: i += 1
\* (NextIndexAlt: a step of two.)
NextIndexAlt(i) == i + 2
NextIndex(i) == i + 1

(***************************************************************************)
(* handler, the pure parts                                                 *)
(***************************************************************************)
\* Lines 166-168
DeviceIdArg(query) == IF query.deviceId.t = "string" /\ query.deviceId.chars # <<>>
                      THEN query.deviceId.chars ELSE <<>>

OutputSubDirArg(query) == IF query.imagePath.t = "string" /\ query.imagePath.chars # <<>>
                          THEN query.imagePath.chars ELSE <<>>

\* parseInt(s, 10): leading white space is skipped, then an optional sign and
\* the longest run of digits; "NaN" when there is no digit.
ParseInt10(s) ==
    LET t    == TrimLeft(s)
        neg  == t # <<>> /\ t[1] = "-"
        u    == IF t # <<>> /\ t[1] \in {"+", "-"} THEN Tail(t) ELSE t
        stop == FirstIn(u, {c \in {u[i] : i \in 1..Len(u)} : ~IsDigit(c)})
        ds   == IF stop = 0 THEN u ELSE SubSeq(u, 1, stop - 1)
    IN  IF ds = <<>> THEN "NaN"
        ELSE IF neg THEN 0 - DecimalValue(ds) ELSE DecimalValue(ds)

NumberOfImagesArg(query) ==
    IF query.numberOfImages.t = "string" /\ query.numberOfImages.chars # <<>>
    THEN ParseInt10(query.numberOfImages.chars) ELSE 5

\* What a callback leaves of the response and of the handler's promise.
Sent(code, body) == [status |-> <<code>>, body |-> <<body>>, pc |-> "done"]

ListBody(list) == [t |-> "list", list |-> list]

MessageBody(m) == [t |-> "message", message |-> m]

\* Lines 171-173
ThenCallback(result) == Sent(200, ListBody(result))

\* Lines 174-180: res.status(500) is called before the argument of json is
\* evaluated; reading err.response.data.message of a response without data
\* throws, and the handler's promise is rejected with nothing sent.
CatchCallback(err) ==
    IF err.response.t # "undefined"
    THEN IF err.response.data.t = "undefined"
         THEN [status |-> <<500>>, body |-> <<>>, pc |-> "rejected"]
         ELSE Sent(500, MessageBody(MessageOf(err.response.data)))
    ELSE Sent(500, MessageBody(Text(err.message)))

\* Lines 170-180
Settle(outcome) ==
    IF outcome.t = "return" THEN ThenCallback(outcome.list) ELSE CatchCallback(outcome.err)

(***************************************************************************)
(* Inputs: the requests, the clock and the remote service                  *)
(***************************************************************************)
MaxRequests == 2
MaxImages == 3

Requests == 1..MaxRequests

\* An instant given by its UTC calendar fields.
Instant(y, m, d, hours, minutes) ==
    TimeValue(DaysFromCivil(y, m, d), (hours * 60 + minutes) * 60000)

NowNear == Instant(2023, 1, 26, 7, 30)
NowFar == Instant(2023, 6, 1, 12, 0)
\* Instants whose UTC fields, read as New York local time, are skipped and
\* repeated at the changes of offset of 2023.
NowSkipped == Instant(2023, 3, 12, 2, 30)
NowRepeated == Instant(2023, 11, 5, 1, 30)

DirScenario == <<"2", "0", "2", "3", "0", "1", "2", "6", "0", "5", "0", "0", "0", "0", "0", "0", "0">>
DirFuture == <<"2", "0", "3", "0", "1", "2", "3", "1", "2", "3", "5", "9", "5", "9", "9", "9", "9">>
DirOverflow == <<"2", "0", "2", "1", "1", "3", "3", "2", "2", "5", "6", "1", "9", "9", "9", "9", "9">>
DirShort == <<"2", "0", "2", "3">>
DirNotADate == <<"n", "o", "t", "-", "a", "-", "d", "a", "t", "e">>

\* Seventeen characters that Number reads field by field: year 2e03 = 2000.
DirExponent == <<"2", "e", "0", "3", "0", "1", "2", "6", "0", "5", "0", "0", "0", "0", "0", "0", "0">>
\* A field with white space, hour " 5" = 5.
DirBlank == <<"2", "0", "2", "3", "0", "1", "2", "6", " ", "5", "0", "0", "0", "0", "0", "0", "0">>
\* A month field with a fraction, ".5" - 1 = -0.5, which is month 0.
DirFraction == <<"2", "0", "2", "3", ".", "5", "2", "6", "0", "5", "0", "0", "0", "0", "0", "0", "0">>
\* An hour field that starts with a line tabulation.
DirTabulation == <<"2", "0", "2", "3", "0", "1", "2", "6", "", "5", "0", "0", "0", "0", "0", "0", "0">>
\* Directories within ten hours of New York's changes of offset of 2023.
DirSpring == <<"2", "0", "2", "3", "0", "3", "1", "1", "2", "0", "0", "0", "0", "0", "0", "0", "0">>
DirAutumn == <<"2", "0", "2", "3", "1", "1", "0", "4", "2", "0", "0", "0", "0", "0", "0", "0", "0">>
\* An hour field that starts with an em space (U+2003).
DirEmSpace == <<"2", "0", "2", "3", "0", "1", "2", "6", "\\u2003", "5", "0", "0", "0", "0", "0", "0">>
\* The last evening of year 9999: ten hours later the year has five digits.
DirY10K == <<"9", "9", "9", "9", "1", "2", "3", "1", "2", "0", "0", "0", "0", "0", "0", "0", "0">>
\* A year field of -001: the year before year 0, which format writes 0002,
\* as it writes 0001 for year 0.
DirBC == <<"-", "0", "0", "1", "1", "2", "3", "1", "2", "0", "0", "0", "0", "0", "0", "0", "0">>

Dirs == {DirScenario, DirShort, DirNotADate, DirExponent}

WindowDirs == {DirScenario, DirFuture, DirOverflow, DirShort, DirNotADate, DirExponent,
               DirBlank, DirFraction, DirTabulation, DirEmSpace, DirSpring, DirAutumn,
               DirY10K, DirBC}

\* The k-th image of the remote store: {name, contents}, named by its
\* timestamp as the store names them.
ImageOf(k) ==
    [name |-> <<"2", "0", "2", "3", "0", "1", "2", "6", "0", "5", Digits[k + 1], "3",
                "4", "4", "8", "7", "3">> \o JpgExt,
     contents |-> <<"Q", Digits[k + 1]>>]

\* Every sequence over S of length at most n.
RECURSIVE SeqsUpTo(_, _)
SeqsUpTo(S, n) ==
    IF n = 0 THEN {<<>>}
    ELSE LET shorter == SeqsUpTo(S, n - 1)
         IN  shorter \cup {Append(q, e) : q \in {x \in shorter : Len(x) = n - 1}, e \in S}

Resolve(status, response, data) ==
    [t |-> "resolve", status |-> status, response |-> response, data |-> data,
     err |-> NewError(Undefined)]

Reject(err) ==
    [t |-> "reject", status |-> 0, response |-> Undefined, data |-> Undefined, err |-> err]

\* How a remote call can be rejected: an error with a structured response
\* (with a message, or without data) or without one.
Rejections ==
    { Reject([message |-> "Request failed with status code 401",
              response |-> Response(ObjMsg(Text("remote: unauthorized")))]),
      Reject([message |-> "Request failed with status code 502",
              response |-> Response(Undefined)]),
      Reject([message |-> "connect ECONNREFUSED", response |-> Undefined]) }

\* What client.insight.getInferenceResults can complete with.
FailedLookups ==
    { Resolve(200, Undefined, Array(<<>>)),
      Resolve(200, Undefined, Array(<<[O |-> ""]>>)),
      Resolve(200, Undefined, Array(<<[O |-> "corrupt"]>>)),
      Resolve(200, Undefined, Undefined),
      Resolve(500, Response(ObjMsg(Text("remote: internal error"))), Undefined),
      Resolve(500, Response(Text("remote: internal error")), Undefined),
      Resolve(500, Undefined, Undefined) }

GoodLookup(payload) == Resolve(200, Undefined, Array(<<[O |-> payload]>>))

InferenceReplies ==
    {GoodLookup(p) : p \in ValidPayloads} \cup FailedLookups \cup Rejections

\* What client.insight.getImages can complete with, the images drawn from S.
Listing(list) == [t |-> "listing", images |-> list]

ListingReplies(S) ==
    {Resolve(200, Undefined, Listing(l)) : l \in SeqsUpTo(S, MaxImages)}
    \cup {Resolve(200, Undefined, Undefined)} \cup Rejections

Queries(deviceIds, dirs, nums) ==
    [deviceId : deviceIds, imagePath : dirs, numberOfImages : nums]

\* The inputs of one request handled alone.
FullDomain ==
    [methods |-> {"GET", "POST"},
     queries |-> Queries({Undefined, QStr(<<>>), QStr(<<"d", "1">>)},
                         {Undefined} \cup {QStr(d) : d \in Dirs},
                         {Undefined, QStr(<<"2">>)}),
     nows |-> {NowNear},
     listings |-> ListingReplies({ImageOf(2), ImageOf(3)}),
     lookups |-> InferenceReplies]

\* The inputs of one request over the directory names, the instants and the
\* zones that decide its query window.
WindowDomain ==
    [methods |-> {"GET"},
     queries |-> Queries({QStr(<<"d", "1">>)},
                         {Undefined} \cup {QStr(d) : d \in WindowDirs},
                         {Undefined}),
     nows |-> {NowNear, NowFar, NowSkipped, NowRepeated},
     listings |-> {Resolve(200, Undefined, Listing(<<>>)),
                   Resolve(200, Undefined, Listing(<<ImageOf(1)>>))},
     lookups |-> {GoodLookup("P1"), Resolve(200, Undefined, Array(<<>>))}]

\* The inputs of request r among concurrent requests: each asks for its own
\* device, whose store holds its own image.
ConcDomain(r) ==
    [methods |-> {"GET"},
     queries |-> Queries({QStr(<<"d", Digits[r + 1]>>)}, {QStr(DirScenario)}, {Undefined}),
     nows |-> {NowNear},
     listings |-> ListingReplies({ImageOf(r)}),
     lookups |-> {GoodLookup("P1"),
                  Resolve(500, Response(ObjMsg(Text("remote: internal error"))), Undefined)}]

(***************************************************************************)
(* The state machine: one action per point at which the handler resumes    *)
(***************************************************************************)
NoRequest == [method |-> "", query |-> [deviceId |-> Undefined, imagePath |-> Undefined,
                                        numberOfImages |-> Undefined]]

NoArgs == [deviceId |-> <<>>, outputSubDir |-> <<>>, numberOfImages |-> 0]

InitRequests ==
    /\ pc = [r \in Requests |-> "idle"]
    /\ req = [r \in Requests |-> NoRequest]
    /\ args = [r \in Requests |-> NoArgs]
    /\ now = [r \in Requests |-> <<>>]
    /\ win = [r \in Requests |-> <<>>]
    /\ listReq = [r \in Requests |-> <<>>]
    /\ images = [r \in Requests |-> <<>>]
    /\ idx = [r \in Requests |-> 0]
    /\ outputList = [r \in Requests |-> <<>>]
    /\ issued = [r \in Requests |-> <<>>]
    /\ replies = [r \in Requests |-> <<>>]
    /\ ret = [r \in Requests |-> Pending]
    /\ res = [r \in Requests |-> [status |-> <<>>, body |-> <<>>]]

Init == tz \in Zones /\ InitRequests

InitConc == tz = "UTC" /\ InitRequests

\* A callback ran: its status and json calls, and the handler's promise.
Respond(r, s) ==
    /\ res' = [res EXCEPT ![r] = [status |-> @.status \o s.status, body |-> @.body \o s.body]]
    /\ pc' = [pc EXCEPT ![r] = s.pc]

\* getImageAndInference returns or throws: its promise is settled, and the
\* handler's then or catch callback is queued to run later.
Finish(r, outcome) ==
    /\ ret' = [ret EXCEPT ![r] = outcome]
    /\ pc' = [pc EXCEPT ![r] = "settled"]
    /\ UNCHANGED res

\* Lines 156-170: the handler is invoked; it answers 405 or 400 or calls
\* getImageAndInference, which runs up to its await of Client.createInstance.
Handler(r, D) ==
    /\ pc[r] = "idle"
    /\ \E method \in D.methods, query \in D.queries :
          /\ req' = [req EXCEPT ![r] = [method |-> method, query |-> query]]
          /\ IF method # "GET"
             THEN Respond(r, Sent(405, MessageBody(Text(OnlyGet)))) /\ UNCHANGED args
             ELSE IF query.deviceId.t # "string" \/ query.deviceId.chars = <<>>
             THEN Respond(r, Sent(400, MessageBody(Text(NoDeviceId)))) /\ UNCHANGED args
             ELSE /\ args' = [args EXCEPT ![r] =
                                [deviceId |-> DeviceIdArg(query),
                                 outputSubDir |-> OutputSubDirArg(query),
                                 numberOfImages |-> NumberOfImagesArg(query)]]
                  /\ pc' = [pc EXCEPT ![r] = "createInstance"]
                  /\ UNCHANGED res
    /\ UNCHANGED <<tz, now, win, listReq, images, idx, outputList, issued, replies, ret>>

\* Lines 66-69: Client.createInstance is rejected.
CreateInstanceFails(r) ==
    /\ pc[r] = "createInstance"
    /\ Finish(r, Throw(NewError(Text(WrongSetting))))
    /\ UNCHANGED <<tz, req, args, now, win, listReq, images, idx, outputList, issued,
                   replies>>

\* Lines 66-100: Client.createInstance completes; the window is resolved at
\* the current instant and client.insight.getImages is called.
CreateInstanceReturns(r, D) ==
    /\ pc[r] = "createInstance"
    /\ \E currentInstant \in D.nows :
          \E w \in {ResolveWindow(args[r].outputSubDir, currentInstant)} :
              /\ now' = [now EXCEPT ![r] = <<currentInstant>>]
              /\ IF w.t = "throw"
                 THEN Finish(r, w) /\ UNCHANGED <<win, listReq>>
                 ELSE /\ win' = [win EXCEPT ![r] = <<w>>]
                      /\ listReq' = [listReq EXCEPT ![r] = Append(@,
                            [deviceId |-> args[r].deviceId,
                             outputSubDir |-> args[r].outputSubDir,
                             numberOfImages |-> args[r].numberOfImages,
                             skip |-> 0, orderBy |-> "DESC",
                             startTime |-> w.startTime, endTime |-> w.endTime])]
                      /\ pc' = [pc EXCEPT ![r] = "getImages"]
                      /\ UNCHANGED <<ret, res>>
    /\ UNCHANGED <<tz, req, args, images, idx, outputList, issued, replies>>

\* Lines 92-124: client.insight.getImages completes; the loop starts and,
\* unless the listing is empty, calls getInferenceResults for image 0.
GetImagesReturns(r, D) ==
    /\ pc[r] = "getImages"
    /\ \E imageData \in D.listings :
          IF imageData.t = "reject"
          THEN Finish(r, Throw(imageData.err)) /\ UNCHANGED <<images, issued>>
          ELSE IF imageData.data.t = "undefined"
          THEN Finish(r, Throw(TypeErrorReading("images"))) /\ UNCHANGED <<images, issued>>
          ELSE /\ images' = [images EXCEPT ![r] = imageData.data.images]
               /\ IF Len(imageData.data.images) = 0
                  THEN Finish(r, Return(outputList[r])) /\ UNCHANGED issued
                  ELSE /\ issued' = [issued EXCEPT ![r] =
                                       Append(@, TimestampOf(imageData.data.images[1]))]
                       /\ pc' = [pc EXCEPT ![r] = "getInferenceResults"]
                       /\ UNCHANGED <<ret, res>>
    /\ UNCHANGED <<tz, req, args, now, win, listReq, idx, outputList, replies>>

\* Lines 118-142: getInferenceResults completes for image i; the record is
\* pushed or the call throws, and the loop calls getInferenceResults for the
\* next image or returns the list.
GetInferenceResultsReturns(r, D) ==
    /\ pc[r] = "getInferenceResults"
    /\ \E resInference \in D.lookups :
          /\ replies' = [replies EXCEPT ![r] = Append(@, resInference)]
          /\ IF resInference.t = "reject"
             THEN Finish(r, Throw(resInference.err)) /\ UNCHANGED <<idx, outputList, issued>>
             ELSE LET o == ProcessInference(resInference)
                  IN  IF o.t = "throw"
                      THEN Finish(r, o) /\ UNCHANGED <<idx, outputList, issued>>
                      ELSE LET lists == Push(outputList, r,
                                             Output(images[r][idx[r] + 1], o.inferenceData))
                               i == NextIndex(idx[r])
                           IN  /\ outputList' = lists
                               /\ idx' = [idx EXCEPT ![r] = i]
                               /\ IF i < Len(images[r])
                                  THEN /\ issued' = [issued EXCEPT ![r] =
                                             Append(@, TimestampOf(images[r][i + 1]))]
                                       /\ UNCHANGED <<pc, ret, res>>
                                  ELSE Finish(r, Return(lists[r])) /\ UNCHANGED issued
    /\ UNCHANGED <<tz, req, args, now, win, listReq, images>>

\* Lines 171-180: the then or the catch callback of the handler runs on the
\* settled promise of getImageAndInference.
Callback(r) ==
    /\ pc[r] = "settled"
    /\ Respond(r, Settle(ret[r]))
    /\ UNCHANGED <<tz, req, args, now, win, listReq, images, idx, outputList, issued,
                   replies, ret>>

Step(r, D) ==
    \/ Handler(r, D)
    \/ CreateInstanceFails(r)
    \/ CreateInstanceReturns(r, D)
    \/ GetImagesReturns(r, D)
    \/ GetInferenceResultsReturns(r, D)
    \/ Callback(r)

\* One request at a time, over all the inputs.
Next == Step(1, FullDomain)

Spec == Init /\ [][Next]_vars

\* One request at a time, over the directory names, instants and zones.
NextWindow == Step(1, WindowDomain)

SpecWindow == Init /\ [][NextWindow]_vars

\* Every request in flight at once, their steps interleaved.
NextConc == \E r \in Requests : Step(r, ConcDomain(r))

SpecConc == InitConc /\ [][NextConc]_vars

(***************************************************************************)
(* Properties                                                              *)
(***************************************************************************)
\* The handler's promise is settled: a callback ran or an early return.
Finished(r) == pc[r] \in {"done", "rejected"}

\* The promise of getImageAndInference is settled.
Settled(r) == pc[r] \in {"settled", "done", "rejected"}

NothingSent(r) == res[r].status = <<>> /\ res[r].body = <<>>

\* The handler answered with this status and this body, once.
Answered(r, code, body) == res[r].status = <<code>> /\ res[r].body = <<body>>

\* A lookup result of the kinds a record cannot be built from: a non-200
\* status, an empty result set, a missing payload, or a payload the decoder
\* throws on.
LookupFailed(reply) ==
    /\ reply.t = "resolve"
    /\ \/ reply.status # 200
       \/ reply.data.t # "array"
       \/ reply.data.items = <<>>
       \/ reply.data.items[1].O = ""
       \/ DeserializeThrows(reply.data.items[1].O)

\* name without its '.jpg' extension.
WithoutJpgExtension(name) ==
    IF Len(name) >= Len(JpgExt) /\ SubSeq(name, Len(name) - Len(JpgExt) + 1, Len(name)) = JpgExt
    THEN SubSeq(name, 1, Len(name) - Len(JpgExt))
    ELSE name

\* C1: retrieve is all-or-nothing.  Whenever the lookup for some image k
\* completed with a failed result, getImageAndInference ended by throwing and
\* the handler sends no list, whatever was pushed for the images before k; and
\* a 200 answer always carries a list as long as the listing.
C1_AllOrNothing ==
    \A r \in Requests :
       /\ \A k \in 1..Len(replies[r]) :
             LookupFailed(replies[r][k]) =>
                /\ ret[r].t = "throw"
                /\ Settled(r)
                /\ 200 \notin {res[r].status[j] : j \in 1..Len(res[r].status)}
                /\ \A j \in 1..Len(res[r].body) : res[r].body[j].t # "list"
       /\ \A j \in 1..Len(res[r].body) :
             res[r].body[j].t = "list" => Len(res[r].body[j].list) = Len(images[r])

\* C1 happens: the second lookup failed after the first image's record had
\* been pushed, and the request ended in an error.
C1_Witness ==
    /\ Len(replies[1]) = 2
    /\ LookupFailed(replies[1][2])
    /\ Len(outputList[1]) = 1
    /\ ret[1].t = "throw"
    /\ res[1].status = <<500>>

\* C2: lookups are issued in strict image order, one at a time.  The
\* timestamps looked up so far are those of the first images of the listing,
\* in order; at most one lookup is outstanding, and exactly while the loop is
\* suspended on it; at that point every earlier lookup has completed and its
\* record has been pushed; and a lookup that failed or was rejected is the
\* last one issued.
C2_SequentialLookups ==
    \A r \in Requests :
       LET n == Len(issued[r])
           c == Len(replies[r])
       IN  /\ n <= Len(images[r])
           /\ \A k \in 1..n : issued[r][k] = TimestampOf(images[r][k])
           /\ n - c \in {0, 1}
           /\ (n - c = 1) <=> (pc[r] = "getInferenceResults")
           /\ pc[r] = "getInferenceResults" => Len(outputList[r]) = c /\ idx[r] = c
           /\ \A k \in 1..c :
                 (replies[r][k].t = "reject" \/ LookupFailed(replies[r][k])) => k = n

\* C2 happens: of three listed images the first lookup succeeded, the second
\* failed, and the third was never looked up.
C2_Witness ==
    /\ Len(images[1]) = 3
    /\ images[1][1] # images[1][2]
    /\ Len(issued[1]) = 2
    /\ Len(replies[1]) = 2
    /\ ~LookupFailed(replies[1][1])
    /\ LookupFailed(replies[1][2])

\* C3: when getImageAndInference returns, its list has one record per listed
\* image, in the listing's order, record i with the name of image i without
\* its '.jpg' extension as timestamp and the data URI of its contents as
\* image; an empty listing gives an empty list and no lookup.
C3_OneRecordPerImage ==
    \A r \in Requests :
       ret[r].t = "return" =>
          /\ Len(ret[r].list) = Len(images[r])
          /\ \A i \in 1..Len(ret[r].list) :
                /\ i <= Len(images[r])
                /\ ret[r].list[i].timestamp = WithoutJpgExtension(images[r][i].name)
                /\ ret[r].list[i].image = DataUriPrefix \o images[r][i].contents
          /\ images[r] = <<>> => ret[r].list = <<>> /\ issued[r] = <<>>
          /\ IF Finished(r) THEN Answered(r, 200, ListBody(ret[r].list))
             ELSE NothingSent(r)

\* C3 happens: a listing of two different images was returned as two records.
C3_Witness ==
    /\ ret[1].t = "return"
    /\ Len(ret[1].list) = 2
    /\ images[1][1] # images[1][2]
    /\ res[1].status = <<200>>

\* The formatted current time and the formatted ten-hours-later time of
\* request r, from the directory it was given and the instant it read.
CurrentTimestampOf(r) == FormatMinute(utcToZonedTime(now[r][1]))

TenHoursLaterOf(r) ==
    FormatMinute(AddTenHours(convertTimestampToDate(args[r].outputSubDir)))

\* a < b for the numbers that strings of digits without leading zeros
\* write.
NumLessStripped(a, b) == IF Len(a) # Len(b) THEN Len(a) < Len(b) ELSE StrLess(a, b)

\* a < b and a <= b for the numbers that strings of digits write: the order
\* in time of timestamps of the form yyyyMMddHHmm, whatever the number of
\* digits of their years.
NumLess(a, b) == NumLessStripped(StripLeadingZeros(a), StripLeadingZeros(b))

NumLeq(a, b) == ~NumLess(b, a)

\* Whether a directory name is exactly 17 numeric characters.
IsTimestamp(dir) == Len(dir) = 17 /\ \A i \in 1..Len(dir) : IsDigit(dir[i])

\* C4 as stated: for a directory name that is a timestamp, the resolved
\* endTime is no later than the formatted current time, no later than the
\* formatted start plus ten hours, and is one of the two.
C4_AsClaimed ==
    \A r \in Requests :
       (win[r] # <<>> /\ IsTimestamp(args[r].outputSubDir)) =>
          \A cur \in {CurrentTimestampOf(r)}, ten \in {TenHoursLaterOf(r)} :
             /\ NumLeq(win[r][1].endTime, cur)
             /\ NumLeq(win[r][1].endTime, ten)
             /\ win[r][1].endTime \in {cur, ten}

\* The year of a Date in local time.
LocalYear(date) == CivilFromDays(Plus(date, Offset(date)).day).y

\* thrown the 'Cannot parse image directory name' error, the handler once
\* finished has answered 500 with it, and no listing request was issued.
C6_AsClaimed ==
    \A r \in Requests :
       (now[r] # <<>> /\ ~IsTimestamp(args[r].outputSubDir)) =>
          /\ ret[r] = Throw(NewError(Text(CannotParse)))
          /\ Finished(r) => Answered(r, 500, MessageBody(Text(CannotParse)))
          /\ listReq[r] = <<>>

\* C7 as stated: a finished handler answered 405 for a method other than GET,
\* else 400 for a missing deviceId, in both cases without calling
\* getImageAndInference; else 200 with the list when it returned and 500 with
\* a message when it threw.
C7_AsClaimed ==
    \A r \in Requests :
       Finished(r) =>
          IF req[r].method # "GET"
          THEN Answered(r, 405, MessageBody(Text(OnlyGet)))
               /\ ret[r] = Pending /\ args[r] = NoArgs
          ELSE IF req[r].query.deviceId \in {Undefined, QStr(<<>>)}
          THEN Answered(r, 400, MessageBody(Text(NoDeviceId)))
               /\ ret[r] = Pending /\ args[r] = NoArgs
          ELSE IF ret[r].t = "return"
          THEN Answered(r, 200, ListBody(ret[r].list))
          ELSE /\ ret[r].t = "throw"
               /\ res[r].status = <<500>>
               /\ Len(res[r].body) = 1
               /\ res[r].body[1].t = "message"
               /\ res[r].body[1].message.t = "text"

\* The message a remote response supplies: its data's message, or its data
\* when that is the text itself.
RemoteMessage(response) ==
    IF response.data.t = "object" THEN response.data.message ELSE response.data

\* C8 as stated: when a lookup completed with a non-200 status and a
\* structured remote response, getImageAndInference threw an error carrying
\* the response's message and the handler once finished has answered 500
\* with that message.
C8_AsClaimed ==
    \A r \in Requests :
       \A k \in 1..Len(replies[r]) :
          (/\ replies[r][k].t = "resolve"
           /\ replies[r][k].status # 200
           /\ replies[r][k].response.t = "response") =>
             /\ ret[r].t = "throw"
             /\ Text(ret[r].err.message) = RemoteMessage(replies[r][k].response)
             /\ Finished(r) =>
                   Answered(r, 500, MessageBody(RemoteMessage(replies[r][k].response)))

\* getImageAndInference run alone on a listing and the lookup results rs,
\* from image i on with the records out: how it ends, or where it waits.
RECURSIVE RunAlone(_, _, _, _)
RunAlone(imgs, rs, i, out) ==
    IF i >= Len(imgs) THEN Return(out)
    ELSE IF i + 1 > Len(rs) THEN [t |-> "waiting", list |-> out]
    ELSE IF rs[i + 1].t = "reject" THEN Throw(rs[i + 1].err)
    ELSE LET o == ProcessInference(rs[i + 1])
         IN  IF o.t = "throw" THEN o
             ELSE RunAlone(imgs, rs, i + 1, Append(out, Output(imgs[i + 1], o.inferenceData)))

\* Request r has received its listing.
Listed(r) == pc[r] = "getInferenceResults" \/ replies[r] # <<>> \/ ret[r].t = "return"

\* C9: concurrent requests do not interfere.  However the steps of the
\* requests interleave, each request that has its listing is where it would
\* be had it run alone on the results it received: the same list so far, the
\* same return value or error and, once its callback has run, the same
\* answer; and no record of one request's list is in another's.
C9_NoInterference ==
    \A r \in Requests :
       /\ Listed(r) =>
             LET alone == RunAlone(images[r], replies[r], 0, <<>>)
             IN  IF alone.t = "waiting"
                 THEN ret[r] = Pending /\ outputList[r] = alone.list /\ ~Settled(r)
                 ELSE /\ ret[r] = alone
                      /\ Settled(r)
                      /\ IF Finished(r)
                         THEN /\ res[r].status = Settle(alone).status
                              /\ res[r].body = Settle(alone).body
                         ELSE NothingSent(r)
       /\ \A q \in Requests \ {r} :
             \A k \in 1..Len(outputList[r]) :
                \A j \in 1..Len(outputList[q]) : outputList[r][k] # outputList[q][j]

\* C9 happens: two requests each hold a record while both wait for a lookup,
\* and so each pushed between the other's steps.
C9_Witness ==
    /\ pc[1] = "getInferenceResults" /\ pc[2] = "getInferenceResults"
    /\ Len(outputList[1]) >= 1 /\ Len(outputList[2]) >= 1

\* C10 as stated: a finished handler has set a status exactly once and sent
\* exactly one response, and its promise was not rejected.
C10_AsClaimed ==
    \A r \in Requests :
       Finished(r) =>
          /\ Len(res[r].status) = 1
          /\ Len(res[r].body) = 1
          /\ pc[r] = "done"

====
